---------------------------- MODULE Spec2Model ----------------------------
(***************************************************************************)
(* A model of src/automata.py: the Abelian sandpile (sandpile) and the     *)
(* three Game-of-Life engines (life, lifetri, life_generic).               *)
(*                                                                         *)
(* Arrays are functions over 0-based indices, a[x][y] as in numpy.  Each   *)
(* engine is a loop; one action is one pass of the loop body, another is   *)
(* the return statement.  A driver action calls an engine again where a    *)
(* claim compares two calls.                                               *)
(***************************************************************************)
EXTENDS Integers, Sequences, FiniteSets, TLC

VARIABLES
    fn,             \* the function being executed
    pc,             \* "loop": at the loop test; "returned"; "raised"
    call,           \* number of the call made by the driver (1 or 2)
    initial_state,  \* the argument of the first call
    irows, icols,   \* np.size(in_state, 0), np.size(in_state, 1)
    in_state,       \* the main array
    aux,            \* the auxiliary array of the Life engines
    nsteps,         \* argument: number of steps
    periodic,       \* argument: boundary mode
    step,           \* passes of the for loop already made
    matrix,         \* argument of life_generic: adjacency matrix
    dtype,          \* element type of the arrays given to life_generic
    environment,    \* argument of life_generic: survival counts
    fertility,      \* argument of life_generic: birth counts
    ret,            \* the value returned by the current call
    first,          \* the value returned by the first call
    leaked          \* history: a cell next to the border has toppled

vars == <<fn, pc, call, initial_state, irows, icols, in_state, aux, nsteps,
          periodic, step, matrix, dtype, environment, fertility, ret, first,
          leaked>>

None == <<>>

-----------------------------------------------------------------------------
(* Bounds of the model *)

\* sides of the sandpile grids: 1..MaxSide rows and columns
MaxSide == 3
\* largest number of grains in one cell of a sandpile input; a non-empty
\* cell holds -1 or 1..MaxGrain
MaxGrain == 5
\* largest number of non-empty cells of a sandpile input
MaxPiles == 2
\* largest number of cells (rows * columns) of a Life grid
MaxCells == 9
\* largest step count given to a Life engine
MaxSteps == 2
\* largest number of cells of a state vector given to life_generic, and of
\* rows and columns of its matrix
MaxNodes == 2
\* largest neighbour count in the sets given to life_generic
MaxCount == 1
\* largest side of the grids on which a glider or a blinker is placed
MaxField == 5
\* largest step count of a run that starts from a blinker
MaxBlinkSteps == 4

-----------------------------------------------------------------------------
(* Array helpers *)

\* range(n)
Range(n) == 0..(n-1)

NRows(a) == Cardinality(DOMAIN a)
NCols(a) == Cardinality(DOMAIN a[0])

Cells(a) == (DOMAIN a) \X (DOMAIN a[0])

RECURSIVE SumTo(_, _)
\* f[0] + ... + f[n-1]
SumTo(f, n) == IF n = 0 THEN 0 ELSE f[n-1] + SumTo(f, n-1)

SumVec(v) == SumTo(v, Cardinality(DOMAIN v))

SumGrid(a) == SumVec([x \in DOMAIN a |-> SumVec(a[x])])

-----------------------------------------------------------------------------
(* sandpile *)

\* np.insert(in_state, [0, irows], 0, axis=0) then the same on axis 1
Pad(g, r, c) ==
    [x \in Range(r + 2) |-> [y \in Range(c + 2) |->
        IF x = 0 \/ x = r + 1 \/ y = 0 \/ y = c + 1 THEN 0 ELSE g[x-1][y-1]]]

\* the threshold of (in_state > 3)
Limit == 3

\* np.where(in_state > 3)
\* variant: the threshold one too high
UnstableOff(a) == {p \in Cells(a) : a[p[1]][p[2]] > Limit + 1}
Unstable(a) == {p \in Cells(a) : a[p[1]][p[2]] > Limit}

\* variant: every target is changed twice
AddAtTwice(a, here, dx, dy, d) ==
    [x \in DOMAIN a |-> [y \in DOMAIN a[x] |->
        IF <<x - dx, y - dy>> \in here THEN a[x][y] + d + d ELSE a[x][y]]]

\* a[xs+dx, ys+dy] += d for the index pairs of here.  The shifted pairs of
\* distinct cells are distinct, so every target is changed once.
AddAt(a, here, dx, dy, d) ==
    [x \in DOMAIN a |-> [y \in DOMAIN a[x] |->
        IF <<x - dx, y - dy>> \in here THEN a[x][y] + d ELSE a[x][y]]]

\* variant: line 44 is missing, the first and last column are not reset
ResetBorderRows(a) ==
    [x \in DOMAIN a |-> [y \in DOMAIN a[x] |->
        IF x = 0 \/ x = NRows(a) - 1 THEN 0 ELSE a[x][y]]]

\* in_state[[0, -1], :] = 0 ; in_state[:, [0, -1]] = 0
ResetBorder(a) ==
    LET r == NRows(a)
        c == NCols(a)
    IN  [x \in DOMAIN a |-> [y \in DOMAIN a[x] |->
            IF x = 0 \/ x = r - 1 \/ y = 0 \/ y = c - 1
            THEN 0 ELSE a[x][y]]]

Grains == 4

\* variant: a toppling cell keeps one of its four grains
TakeGrainsShort(a, here) == AddAt(a, here, 0, 0, 1 - Grains)

\* in_state[x_here, y_here] -= 4
TakeGrains(a, here) == AddAt(a, here, 0, 0, 0 - Grains)

\* variant: line 41 is missing, the cell to the right gets no grain
ToppleThree(a, here) ==
    CHOOSE a6 \in
      {ResetBorder(a5) : a5 \in
        {TakeGrains(a3, here) : a3 \in
          {AddAt(a2, here, 0, -1, 1) : a2 \in
            {AddAt(a1, here, 1, 0, 1) : a1 \in
              {AddAt(a, here, -1, 0, 1)}}}}} : TRUE

\* variant: lines 40 and 41 are missing, only the cells above and below get
\* a grain
ToppleUpDown(a, here) ==
    CHOOSE a6 \in
      {ResetBorder(a5) : a5 \in
        {TakeGrains(a2, here) : a2 \in
          {AddAt(a1, here, 1, 0, 1) : a1 \in
            {AddAt(a, here, -1, 0, 1)}}}} : TRUE

\* variant: the pass works on a copy and its result is lost
ToppleLost(a, here) == a

\* the body of the while loop, lines 38 to 44; the statements are nested
\* innermost first, each working on the array left by the one before
Topple(a, here) ==
    CHOOSE a6 \in
      {ResetBorder(a5) : a5 \in
        {TakeGrains(a4, here) : a4 \in
          {AddAt(a3, here, 0, 1, 1) : a3 \in
            {AddAt(a2, here, 0, -1, 1) : a2 \in
              {AddAt(a1, here, 1, 0, 1) : a1 \in
                {AddAt(a, here, -1, 0, 1)}}}}}} : TRUE

\* variant: the slice in_state[0:-2, 0:-2]
InteriorShifted(a) ==
    [x \in Range(NRows(a) - 2) |-> [y \in Range(NCols(a) - 2) |-> a[x][y]]]

\* in_state[1:-1, 1:-1]
Interior(a) ==
    [x \in Range(NRows(a) - 2) |-> [y \in Range(NCols(a) - 2) |->
        a[x+1][y+1]]]

\* cells of the padded grid that touch the border
NextToBorder(a) ==
    {p \in Cells(a) : \/ p[1] \in {1, NRows(a) - 2}
                      \/ p[2] \in {1, NCols(a) - 2}}

Sides == 1..MaxSide

\* the values of the non-empty cells of an input
PileVals == (-1..MaxGrain) \ {0}

PileSets(r, c) ==
    {S \in SUBSET (Range(r) \X Range(c)) : Cardinality(S) <= MaxPiles}

\* an r x c grid with the piles h and 0 elsewhere
Piles(r, c, h) ==
    [x \in Range(r) |-> [y \in Range(c) |->
        IF <<x, y>> \in DOMAIN h THEN h[<<x, y>>] ELSE 0]]

Unused ==
    /\ aux = None /\ nsteps = 0 /\ periodic = FALSE /\ step = 0
    /\ matrix = None /\ dtype = "int" /\ environment = {} /\ fertility = {}

\* no function has been called yet
Init ==
    /\ fn = "none"
    /\ pc = "idle"
    /\ call = 0
    /\ initial_state = None
    /\ irows = 0
    /\ icols = 0
    /\ in_state = None
    /\ ret = None
    /\ first = None
    /\ leaked = FALSE
    /\ Unused

\* sandpile(initial_state): the initialisation, up to the loop test
SandCall ==
    /\ pc = "idle"
    /\ \E r \in Sides, c \in Sides : \E S \in PileSets(r, c) :
           \E h \in [S -> PileVals] :
              /\ initial_state' = Piles(r, c, h)
              /\ irows' = r
              /\ icols' = c
              /\ in_state' = Pad(Piles(r, c, h), r, c)
    /\ fn' = "sandpile"
    /\ pc' = "loop"
    /\ call' = 1
    /\ UNCHANGED <<aux, nsteps, periodic, step, matrix, dtype, environment,
                   fertility, ret, first, leaked>>

\* one pass of the while loop
SandTopple ==
    /\ fn = "sandpile" /\ pc = "loop"
    /\ Unstable(in_state) # {}
    /\ in_state' = Topple(in_state, Unstable(in_state))
    /\ leaked' = (leaked \/ Unstable(in_state) \cap NextToBorder(in_state) # {})
    /\ UNCHANGED <<fn, pc, call, initial_state, irows, icols, aux, nsteps,
                   periodic, step, matrix, dtype, environment, fertility,
                   ret, first>>

\* the loop test fails: return(in_state[1:-1, 1:-1])
SandReturn ==
    /\ fn = "sandpile" /\ pc = "loop"
    /\ Unstable(in_state) = {}
    /\ pc' = "returned"
    /\ ret' = Interior(in_state)
    /\ UNCHANGED <<fn, call, initial_state, irows, icols, in_state, aux,
                   nsteps, periodic, step, matrix, dtype, environment,
                   fertility, first, leaked>>

\* the caller relaxes the result again: sandpile(sandpile(x))
SandAgain ==
    /\ fn = "sandpile" /\ pc = "returned" /\ call = 1
    /\ call' = 2
    /\ first' = ret
    /\ pc' = "loop"
    /\ irows' = NRows(ret)
    /\ icols' = NCols(ret)
    /\ in_state' = Pad(ret, NRows(ret), NCols(ret))
    /\ ret' = None
    /\ leaked' = FALSE
    /\ UNCHANGED <<fn, initial_state, aux, nsteps, periodic, step, matrix,
                   dtype, environment, fertility>>

NextSand == SandCall \/ SandTopple \/ SandReturn \/ SandAgain

SpecSand == Init /\ [][NextSand]_vars

\* the loop is sequential code: once called, the statement that comes next
\* is executed
LiveSand == SpecSand /\ WF_vars(SandTopple) /\ WF_vars(SandReturn)

-----------------------------------------------------------------------------
(* life *)

\* the r x c arrays of booleans
BoolGrids(r, c) == [Range(r) -> [Range(c) -> BOOLEAN]]

\* the shapes of the Life grids
Shapes == {sh \in (1..MaxCells) \X (1..MaxCells) : sh[1] * sh[2] <= MaxCells}

\* the step counts given by the caller; a negative one among them
StepCounts == (-1)..MaxSteps

\* a boolean in arithmetic: True is 1, False is 0
AsInt(b) == IF b THEN 1 ELSE 0

\* a number stored into an array of booleans: nonzero is True
AsBool(v) == v # 0

\* variant: the kernel that counts the cell itself
filter_full == [i \in Range(3) |-> [j \in Range(3) |-> 1]]

\* np.array([[1, 1, 1], [1, 0, 1], [1, 1, 1]])
filter_array ==
    [i \in Range(3) |-> [j \in Range(3) |-> IF i = 1 /\ j = 1 THEN 0 ELSE 1]]

\* variant: the indices are never taken around the edges
PaddedFill(a, x, y, wrap) ==
    IF x \in DOMAIN a /\ y \in DOMAIN a[0] THEN AsInt(a[x][y]) ELSE 0

\* the element of a at (x, y) as convolve2d reads it: boundary='wrap' takes
\* the indices around the edges, boundary='fill' reads 0 outside the array
Padded(a, x, y, wrap) ==
    IF wrap
    THEN AsInt(a[x % NRows(a)][y % NCols(a)])
    ELSE IF x \in DOMAIN a /\ y \in DOMAIN a[0] THEN AsInt(a[x][y]) ELSE 0

\* sps.convolve2d(a, k, mode='same', boundary=...) with a 3x3 kernel k:
\* out[x, y] = sum over i, j of k[i, j] * a[x + 1 - i, y + 1 - j]
convolve2d(a, k, wrap) ==
    [x \in DOMAIN a |-> [y \in DOMAIN a[x] |->
        SumTo([n \in Range(9) |->
                  k[n \div 3][n % 3]
                  * Padded(a, x + 1 - (n \div 3), y + 1 - (n % 3), wrap)], 9)]]

\* a[xs, ys] = v for the index pairs of here, v cast to a boolean
SetAt(a, here, v) ==
    [x \in DOMAIN a |-> [y \in DOMAIN a[x] |->
        IF <<x, y>> \in here THEN AsBool(v) ELSE a[x][y]]]

\* variant: np.less(conv, 3)
Here1Harsh(conv) == {p \in Cells(conv) : conv[p[1]][p[2]] > 3 \/ conv[p[1]][p[2]] < 3}

\* np.where(np.logical_or(np.greater(conv, 3), np.less(conv, 2)))
Here1(conv) == {p \in Cells(conv) : conv[p[1]][p[2]] > 3 \/ conv[p[1]][p[2]] < 2}

\* np.where(conv == 3)
Here2(conv) == {p \in Cells(conv) : conv[p[1]][p[2]] = 3}

\* lines 86 to 104: the value of aux after one pass of the loop
LifePass(a, wrap) ==
    CHOOSE a2 \in
      {SetAt(SetAt(a, Here1(conv), 0), Here2(conv), 1) :
          conv \in {convolve2d(a, filter_array, wrap)}} : TRUE

\* np.array(in_state, dtype=bool), of an array that holds booleans
ToBoolArray(a) == [x \in DOMAIN a |-> [y \in DOMAIN a[x] |-> a[x][y] = TRUE]]

\* life(initial_state, nsteps, periodic): lines 73 to 81
LifeCall ==
    /\ pc = "idle"
    /\ \E sh \in Shapes : \E g \in BoolGrids(sh[1], sh[2]) :
          /\ initial_state' = g
          /\ in_state' = g
          /\ aux' = g
          /\ irows' = sh[1]
          /\ icols' = sh[2]
    /\ nsteps' \in StepCounts
    /\ periodic' \in BOOLEAN
    /\ fn' = "life"
    /\ pc' = "loop"
    /\ call' = 1
    /\ step' = 0
    /\ UNCHANGED <<matrix, dtype, environment, fertility, ret, first, leaked>>

\* one pass of the for loop, lines 83 to 117; periodic == 1 holds of True
LifeStep ==
    /\ fn = "life" /\ pc = "loop"
    /\ step < nsteps
    /\ aux' = LifePass(aux, periodic)
    /\ in_state' = aux'
    /\ step' = step + 1
    /\ UNCHANGED <<fn, pc, call, initial_state, irows, icols, nsteps,
                   periodic, matrix, dtype, environment, fertility, ret,
                   first, leaked>>

\* range(nsteps) is exhausted: lines 122 and 123
LifeReturn ==
    /\ fn = "life" /\ pc = "loop"
    /\ step >= nsteps
    /\ pc' = "returned"
    /\ ret' = ToBoolArray(in_state)
    /\ UNCHANGED <<fn, call, initial_state, irows, icols, in_state, aux,
                   nsteps, periodic, step, matrix, dtype, environment,
                   fertility, first, leaked>>

NextLife == LifeCall \/ LifeStep \/ LifeReturn

SpecLife == Init /\ [][NextLife]_vars

\* the eight offsets of the Moore neighbourhood
MooreOffsets == {d \in {-1, 0, 1} \X {-1, 0, 1} : d # <<0, 0>>}

\* is the cell at offset d from (x, y) alive in g, under the boundary mode
AliveAt(g, x, y, d, wrap) ==
    IF wrap
    THEN g[(x + d[1]) % NRows(g)][(y + d[2]) % NCols(g)]
    ELSE /\ x + d[1] \in DOMAIN g
         /\ y + d[2] \in DOMAIN g[0]
         /\ g[x + d[1]][y + d[2]]

LiveNeighbours(g, x, y, wrap) ==
    Cardinality({d \in MooreOffsets : AliveAt(g, x, y, d, wrap)})

\* the rule of Life
StdRule(alive, n) == IF alive THEN n \in {2, 3} ELSE n = 3

LifeStepped == fn = "life" /\ pc = "loop" /\ step' = step + 1

\* C6: a step of life gives every cell the state the Life rule yields from
\* the grid before the step: a live cell with 2 or 3 live Moore neighbours
\* lives, a dead cell with exactly 3 is born, every other cell is dead;
\* neighbours beyond an edge are dead (periodic false) or taken around the
\* torus (periodic true).
C6_LifeRule ==
    [][LifeStepped =>
        \A x \in DOMAIN in_state : \A y \in DOMAIN in_state[x] :
            in_state'[x][y] =
                StdRule(in_state[x][y],
                        LiveNeighbours(in_state, x, y, periodic))]_vars

\* after the first step: a cell was born and another died, on a torus
C6_Witness ==
    /\ fn = "life" /\ step = 1 /\ periodic
    /\ \E p \in Cells(in_state) :
          in_state[p[1]][p[2]] /\ ~initial_state[p[1]][p[2]]
    /\ \E p \in Cells(in_state) :
          ~in_state[p[1]][p[2]] /\ initial_state[p[1]][p[2]]

-----------------------------------------------------------------------------
(* lifetri *)

\* lines 146 to 149: the grid, as numbers, inside a border of zeros that is
\* one row deep above and below and two columns wide left and right
TriPad(g, r, c) ==
    [x \in Range(r + 2) |-> [y \in Range(c + 4) |->
        IF x \in 1..r /\ y \in 2..(c + 1) THEN AsInt(g[x-1][y-2]) ELSE 0]]

\* a[tx:tx+h, ty:ty+w] = np.copy(b[sx:sx+h, sy:sy+w])
CopyBlock(a, tx, ty, h, w, b, sx, sy) ==
    [x \in DOMAIN a |-> [y \in DOMAIN a[x] |->
        IF x \in tx..(tx + h - 1) /\ y \in ty..(ty + w - 1)
        THEN b[sx + x - tx][sy + y - ty] ELSE a[x][y]]]

\* lines 155 to 162, run when periodic is True: the border of a is filled
\* from b; the statements are nested innermost first
CircularBoundary(a, b) ==
    LET R == NRows(b)
        C == NCols(b)
    IN  CHOOSE a8 \in
          {CopyBlock(a7, R - 1, 0, 1, 2, b, 1, C - 4) : a7 \in
            {CopyBlock(a6, 0, C - 2, 1, 2, b, R - 2, 2) : a6 \in
              {CopyBlock(a5, R - 1, C - 2, 1, 2, b, 1, 2) : a5 \in
                {CopyBlock(a4, 0, 0, 1, 2, b, R - 2, C - 4) : a4 \in
                  {CopyBlock(a3, 0, C - 2, R, 2, b, 0, 2) : a3 \in
                    {CopyBlock(a2, 0, 0, R, 2, b, 0, C - 4) : a2 \in
                      {CopyBlock(a1, R - 1, 0, 1, C, b, 1, 0) : a1 \in
                        {CopyBlock(a, 0, 0, 1, C, b, R - 2, 0)}}}}}}}} : TRUE

\* variant: the border is filled whatever periodic is
BoundaryAlways(a, b, per) == CircularBoundary(a, b)

\* the array whose windows a pass reads: in_state after line 153
Boundary(a, b, per) == IF per = TRUE THEN CircularBoundary(a, b) ELSE a

\* sum(row[lo:hi]); the bounds used lie within the row
SliceSum(row, lo, hi) == SumTo([j \in Range(hi - lo) |-> row[lo + j]], hi - lo)

\* variant: (x+y) % 2 == 0
UpFlipped(x, y) == AsInt((x + y) % 2 = 0)

\* line 171
Up(x, y) == AsInt((x + y + 1) % 2 = 0)

\* variant: the cell itself is not subtracted
neighborsAndSelf(a, x, y) ==
    LET up == Up(x, y)
        down == 1 - up
    IN  SliceSum(a[x-1], (y-1)*up + down*(y-2), (y+2)*up + down*(y+3))
        + SliceSum(a[x], y - 2, y + 3)
        + SliceSum(a[x+1], (y-2)*up + down*(y-1), (y+3)*up + down*(y+2))

\* lines 171 to 181
neighbors(a, x, y) ==
    LET up == Up(x, y)
        down == 1 - up
    IN  SliceSum(a[x-1], (y-1)*up + down*(y-2), (y+2)*up + down*(y+3))
        + SliceSum(a[x], y - 2, y + 3)
        + SliceSum(a[x+1], (y-2)*up + down*(y-1), (y+3)*up + down*(y+2))
        - a[x][y]

\* lines 183 to 186: the new aux[x, y], old being the value it holds
TriRule(n, old) == IF n \notin {4, 5, 6} THEN 0 ELSE IF n = 4 THEN 1 ELSE old

\* lines 165 to 186: aux after the two for loops, which read a and write b
TriPass(a, b) ==
    [x \in DOMAIN b |-> [y \in DOMAIN b[x] |->
        IF x \in 1..(NRows(b) - 2) /\ y \in 2..(NCols(b) - 3)
        THEN TriRule(neighbors(a, x, y), b[x][y]) ELSE b[x][y]]]

\* variant: the slice in_state[1:-1, 1:-3]
TriInteriorLeft(a) ==
    [x \in Range(NRows(a) - 2) |-> [y \in Range(NCols(a) - 4) |->
        a[x+1][y+1]]]

\* in_state[1:-1, 2:-2]
TriInterior(a) ==
    [x \in Range(NRows(a) - 2) |-> [y \in Range(NCols(a) - 4) |->
        a[x+1][y+2]]]

\* lifetri(initial_state, nsteps, periodic): lines 143 to 149
TriCall ==
    /\ pc = "idle"
    /\ \E sh \in Shapes : \E g \in BoolGrids(sh[1], sh[2]) :
          /\ initial_state' = g
          /\ aux' = TriPad(g, sh[1], sh[2])
          /\ in_state' = aux'
          /\ irows' = sh[1]
          /\ icols' = sh[2]
    /\ nsteps' \in StepCounts
    /\ periodic' \in BOOLEAN
    /\ fn' = "lifetri"
    /\ pc' = "loop"
    /\ call' = 1
    /\ step' = 0
    /\ UNCHANGED <<matrix, dtype, environment, fertility, ret, first, leaked>>

\* one pass of the for loop, lines 151 to 188
TriStep ==
    /\ fn = "lifetri" /\ pc = "loop"
    /\ step < nsteps
    /\ \E w \in {Boundary(in_state, aux, periodic)} : aux' = TriPass(w, aux)
    /\ in_state' = aux'
    /\ step' = step + 1
    /\ UNCHANGED <<fn, pc, call, initial_state, irows, icols, nsteps,
                   periodic, matrix, dtype, environment, fertility, ret,
                   first, leaked>>

\* range(nsteps) is exhausted: line 192
TriReturn ==
    /\ fn = "lifetri" /\ pc = "loop"
    /\ step >= nsteps
    /\ pc' = "returned"
    /\ ret' = TriInterior(in_state)
    /\ UNCHANGED <<fn, call, initial_state, irows, icols, in_state, aux,
                   nsteps, periodic, step, matrix, dtype, environment,
                   fertility, first, leaked>>

NextTri == TriCall \/ TriStep \/ TriReturn

SpecTri == Init /\ [][NextTri]_vars

\* the window of a cell with 3 cells in the row above and 5 in the row below
Window3Above ==
    ({-1} \X (-1..1)) \cup ({0} \X {-2, -1, 1, 2}) \cup ({1} \X (-2..2))

\* the window of a cell with 5 cells in the row above and 3 in the row below
Window5Above ==
    ({-1} \X (-2..2)) \cup ({0} \X {-2, -1, 1, 2}) \cup ({1} \X (-1..1))

\* the window of the cell at (x, y) of the padded buffer
Window(x, y) == IF (x + y + 1) % 2 = 0 THEN Window3Above ELSE Window5Above

\* the number of live cells in the window of (x, y)
WindowCount(a, x, y) ==
    Cardinality({d \in Window(x, y) : a[x + d[1]][y + d[2]] = 1})

TriStepped == fn = "lifetri" /\ pc = "loop" /\ step' = step + 1

\* the cells of the padded buffer that are cells of the caller's grid
TriCells == (1..irows) \X (2..(icols + 1))

\* C9: a step of lifetri makes every cell of the grid live if its window of
\* 12 cells held 4 live cells before the step, leaves it as it was if the
\* window held 5 or 6, and makes it dead otherwise.
C9_TriRule ==
    [][TriStepped =>
        \A p \in TriCells :
            LET n == WindowCount(Boundary(in_state, aux, periodic), p[1], p[2])
            IN  /\ Cardinality(Window(p[1], p[2])) = 12
                /\ in_state'[p[1]][p[2]] =
                      IF n = 4 THEN 1
                      ELSE IF n \in {5, 6} THEN in_state[p[1]][p[2]] ELSE 0]_vars

\* after the first step: one cell was born, one died and one stayed alive
C9_Witness ==
    /\ fn = "lifetri" /\ step = 1
    /\ \E p \in TriCells :
          in_state[p[1]][p[2]] = 1 /\ ~initial_state[p[1]-1][p[2]-2]
    /\ \E p \in TriCells :
          in_state[p[1]][p[2]] = 0 /\ initial_state[p[1]-1][p[2]-2]
    /\ \E p \in TriCells :
          in_state[p[1]][p[2]] = 1 /\ initial_state[p[1]-1][p[2]-2]

-----------------------------------------------------------------------------
(* life_generic *)

\* The entries of matrix are kept as booleans; dtype tells what the caller's
\* array holds: "bool" (True, False, as the docstring asks) or "int" (1, 0).
\* initial_state holds booleans, as the docstring asks.
DTypes == {"bool", "int"}

\* the n-vectors of booleans
BoolVectors(n) == [Range(n) -> BOOLEAN]

\* the sets of neighbour counts
CountSets == SUBSET (0..MaxCount)

\* np.dot(row, v) of two 1d arrays of equal length: of two arrays of
\* booleans it is a boolean, True if some position is True in both, which
\* set membership and == then read as 1 or 0; with an array of integers it
\* is the number of such positions
Dot(row, v, dt) ==
    LET count == SumTo([j \in DOMAIN v |-> AsInt(row[j] /\ v[j])],
                       Cardinality(DOMAIN v))
    IN  IF dt = "bool" THEN AsInt(count > 0) ELSE count

\* line 229 raises: no row x (IndexError), or a row whose length differs
\* from that of in_state (ValueError)
DotRaises(m, v, x) == x \notin DOMAIN m \/ NCols(m) # Cardinality(DOMAIN v)

\* line 233, neighbors == np.array(list(fertility)), used as a condition:
\* an array of two or more elements has no truth value (ValueError); an
\* empty one is False, or raises too where numpy is strict about it
TestRaises(n, fert, strict) ==
    Cardinality(fert) > 1 \/ (fert = {} /\ strict)

\* the truth value of the test of line 233 where it has one
TestHolds(n, fert) == fert = {n}

\* lines 229 to 234 raise at cell x
CellRaises(m, v, x, env, fert, dt, strict) ==
    \/ DotRaises(m, v, x)
    \/ Dot(m[x], v, dt) \in env /\ TestRaises(Dot(m[x], v, dt), fert, strict)

\* lines 229 to 234: the new aux[x], old being the value it holds
CellPass(m, v, x, env, fert, dt, old) ==
    LET nb == Dot(m[x], v, dt)
    IN  IF nb \notin env THEN AsBool(0)
        ELSE IF TestHolds(nb, fert) THEN AsBool(1) ELSE old

\* lines 226 to 234: aux after the for loop over the cells
GenPass(m, v, b, env, fert, dt) ==
    [x \in DOMAIN b |-> CellPass(m, v, x, env, fert, dt, b[x])]

\* life_generic(matrix, initial_state, nsteps, environment, fertility):
\* lines 218 to 221
GenCall ==
    /\ pc = "idle"
    /\ \E n \in 1..MaxNodes : \E v \in BoolVectors(n) :
          /\ initial_state' = v
          /\ in_state' = v
          /\ aux' = v
          /\ irows' = n
    /\ \E nr \in 1..MaxNodes, nc \in 1..MaxNodes :
          matrix' \in BoolGrids(nr, nc)
    /\ dtype' \in DTypes
    /\ nsteps' \in StepCounts
    /\ environment' \in CountSets
    /\ fertility' \in CountSets
    /\ fn' = "life_generic"
    /\ pc' = "loop"
    /\ call' = 1
    /\ step' = 0
    /\ UNCHANGED <<icols, periodic, ret, first, leaked>>

\* one pass of the outer for loop, lines 224 to 235, or the exception that
\* ends it
GenStep ==
    /\ fn = "life_generic" /\ pc = "loop"
    /\ step < nsteps
    /\ \E strict \in BOOLEAN :
          IF \E x \in Range(irows) :
                CellRaises(matrix, in_state, x, environment, fertility,
                           dtype, strict)
          THEN /\ pc' = "raised"
               /\ UNCHANGED <<in_state, aux, step>>
          ELSE /\ aux' = GenPass(matrix, in_state, aux, environment,
                                 fertility, dtype)
               /\ in_state' = aux'
               /\ step' = step + 1
               /\ pc' = pc
    /\ UNCHANGED <<fn, call, initial_state, irows, icols, nsteps, periodic,
                   matrix, dtype, environment, fertility, ret, first, leaked>>

\* range(nsteps) is exhausted: line 240
GenReturn ==
    /\ fn = "life_generic" /\ pc = "loop"
    /\ step >= nsteps
    /\ pc' = "returned"
    /\ ret' = in_state
    /\ UNCHANGED <<fn, call, initial_state, irows, icols, in_state, aux,
                   nsteps, periodic, step, matrix, dtype, environment,
                   fertility, first, leaked>>

NextGen == GenCall \/ GenStep \/ GenReturn

SpecGen == Init /\ [][NextGen]_vars

\* the three engines that take a step count
NextSteps == NextLife \/ NextTri \/ NextGen

SpecSteps == Init /\ [][NextSteps]_vars

\* np.ravel of an r x c grid: cell (x, y) is element x * c + y
Flatten(g) ==
    [i \in Range(NRows(g) * NCols(g)) |-> g[i \div NCols(g)][i % NCols(g)]]

\* the adjacency matrix of the r x c grid whose cells have their up to 8
\* neighbours inside the grid
GridAdjacency(r, c) ==
    [i \in Range(r * c) |-> [j \in Range(r * c) |->
        /\ i # j
        /\ (i \div c) - (j \div c) \in -1..1
        /\ (i % c) - (j % c) \in -1..1]]

\* after life(g, nsteps, False) has returned, the caller runs
\* life_generic(adjacency of the grid, g flattened, nsteps, {2, 3}, {3})
GenOnGrid ==
    /\ fn = "life" /\ pc = "returned" /\ call = 1 /\ ~periodic
    /\ first' = ret
    /\ call' = 2
    /\ fn' = "life_generic"
    /\ pc' = "loop"
    /\ matrix' = GridAdjacency(irows, icols)
    /\ dtype' \in DTypes
    /\ in_state' = Flatten(initial_state)
    /\ aux' = in_state'
    /\ irows' = irows * icols
    /\ environment' = {2, 3}
    /\ fertility' = {3}
    /\ step' = 0
    /\ ret' = None
    /\ UNCHANGED <<initial_state, icols, nsteps, periodic, leaked>>

NextPair == NextLife \/ GenOnGrid \/ GenStep \/ GenReturn

SpecPair == Init /\ [][NextPair]_vars

-----------------------------------------------------------------------------
(* claims about sandpile *)

\* the argument of the current call
Arg == IF call = 1 THEN initial_state ELSE first

SandReturned == fn = "sandpile" /\ pc = "returned"

\* some cell of the argument exceeds 3, so the loop body has run
SandToppled == Unstable(Arg) # {}

\* C1: the grid returned by sandpile has no cell greater than 3.
C1_ResultStable ==
    SandReturned => \A p \in Cells(ret) : ret[p[1]][p[2]] <= 3

C1_Witness == SandReturned /\ call = 1 /\ SandToppled

\* C2: the toppling loop ends: eventually no cell of the padded grid exceeds
\* 3 and the function has returned.
C2_Terminates ==
    (fn = "sandpile" /\ pc = "loop") ~>
        (SandReturned /\ Unstable(in_state) = {})

C2_Witness == SandReturned /\ call = 1 /\ SandToppled /\ ~leaked

\* C3: the sum of the result is at most the sum of the input, and the two
\* are equal exactly when no cell next to the border has toppled.
C3_MassNotGained ==
    SandReturned =>
        /\ SumGrid(ret) <= SumGrid(Arg)
        /\ (SumGrid(ret) = SumGrid(Arg)) <=> ~leaked

C3_Witness == SandReturned /\ call = 1 /\ SandToppled /\ leaked

\* C4: relaxing a relaxed grid changes nothing, and a grid with no cell
\* above 3 is returned as it was given.
C4_Idempotent ==
    SandReturned =>
        /\ call = 2 => ret = first
        /\ ~SandToppled => ret = Arg

C4_Witness == SandReturned /\ call = 2 /\ first # initial_state

Centre4 ==
    [x \in Range(3) |-> [y \in Range(3) |-> IF x = 1 /\ y = 1 THEN 4 ELSE 0]]
Zero3x3 == [x \in Range(3) |-> [y \in Range(3) |-> 0]]
Plus3x3 ==
    [x \in Range(3) |-> [y \in Range(3) |->
        IF (x = 1) # (y = 1) THEN 1 ELSE 0]]

\* C5 as stated: a 3x3 grid with 4 in the centre relaxes to all zeros.
C5_AllZero == (SandReturned /\ Arg = Centre4) => ret = Zero3x3

\* C5, amended: a 3x3 grid with 4 in the centre relaxes to the grid with 1
\* in the four cells orthogonally next to the centre and 0 elsewhere.
C5_Plus == (SandReturned /\ Arg = Centre4) => ret = Plus3x3

C5_Witness == SandReturned /\ call = 1 /\ initial_state = Centre4

\* the cells orthogonally next to p
Ortho(p) ==
    {<<p[1] - 1, p[2]>>, <<p[1] + 1, p[2]>>, <<p[1], p[2] - 1>>, <<p[1], p[2] + 1>>}

\* the cells of the padded grid a that are cells of the caller's grid
Inner(a) == (1..(NRows(a) - 2)) \X (1..(NCols(a) - 2))

\* the cells of the padded grid a that are on its border
Border(a) == Cells(a) \ Inner(a)

\* a pass of the while loop is taken
SandPassing == fn = "sandpile" /\ pc = "loop" /\ pc' = "loop" /\ call' = call

\* C15: a pass of the loop changes every cell of the grid by the number of
\* its orthogonal neighbours that exceeded 3 before the pass, minus 4 if the
\* cell itself exceeded 3 before the pass; the cells that topple are those
\* that exceeded 3 when the pass began, and each loses exactly 4.
C15_SimultaneousTopple ==
    [][SandPassing =>
        LET U == {p \in Cells(in_state) : in_state[p[1]][p[2]] > 3}
        IN  /\ U # {}
            /\ \A p \in Inner(in_state) :
                  in_state'[p[1]][p[2]] =
                      in_state[p[1]][p[2]]
                      + Cardinality(Ortho(p) \cap U)
                      - (IF p \in U THEN 4 ELSE 0)]_vars

\* after a pass, a cell exceeds 3 that did not exceed 3 in the input: it
\* has not toppled in the pass that made it unstable
C15_Witness ==
    /\ fn = "sandpile" /\ pc = "loop" /\ call = 1
    /\ \E p \in Inner(in_state) :
          /\ in_state[p[1]][p[2]] > 3
          /\ initial_state[p[1] - 1][p[2] - 1] <= 3

\* one cell p of the grid g topples: it loses 4 grains and each orthogonal
\* neighbour inside the grid gains one; the grains that cross the edge are
\* discarded
ToppleOne(g, p) ==
    [x \in DOMAIN g |-> [y \in DOMAIN g[x] |->
        IF <<x, y>> = p THEN g[x][y] - 4
        ELSE IF <<x, y>> \in Ortho(p) THEN g[x][y] + 1 ELSE g[x][y]]]

Over3(g) == {p \in Cells(g) : g[p[1]][p[2]] > 3}

RECURSIVE OneAtATime(_)
\* the stable grids reached from the grids of S by toppling one unstable
\* cell at a time, in every order
OneAtATime(S) ==
    IF \A g \in S : Over3(g) = {} THEN S
    ELSE OneAtATime({g \in S : Over3(g) = {}}
                    \cup UNION {{ToppleOne(g, p) : p \in Over3(g)} : g \in S})

\* C16: the grid returned by sandpile is the one stable grid reached by
\* toppling one unstable cell at a time, whatever the order of the cells.
C16_Abelian == SandReturned => OneAtATime({Arg}) = {ret}

\* the result of an input with two unstable cells, so that there is more
\* than one order
C16_Witness ==
    SandReturned /\ call = 1 /\ Cardinality(Over3(initial_state)) >= 2

\* C20: whenever the loop condition is evaluated, every border cell of the
\* padded grid is 0, so that every cell above 3 is a cell of the grid; and if
\* no cell of the input is negative, no cell of the padded grid is.
C20_LoopInvariant ==
    (fn = "sandpile" /\ pc = "loop") =>
        /\ \A p \in Border(in_state) : in_state[p[1]][p[2]] = 0
        /\ Unstable(in_state) \subseteq Inner(in_state)
        /\ (\A p \in Cells(Arg) : Arg[p[1]][p[2]] >= 0)
              => \A p \in Cells(in_state) : in_state[p[1]][p[2]] >= 0

\* the loop condition is evaluated after a cell next to the border toppled,
\* the input holding no negative cell
C20_Witness ==
    /\ fn = "sandpile" /\ pc = "loop" /\ call = 1 /\ leaked
    /\ \A p \in Cells(Arg) : Arg[p[1]][p[2]] >= 0

-----------------------------------------------------------------------------
(* claims about life_generic *)

\* the number of neighbours of cell i that are alive in v
LiveCount(m, v, i) == Cardinality({j \in DOMAIN v : m[i][j] /\ v[j]})

GenStepping == fn = "life_generic" /\ pc = "loop" /\ step < nsteps

\* the matrix is n x n for the n cells of in_state
SquareMatrix ==
    NRows(matrix) = Cardinality(DOMAIN in_state)
        /\ NCols(matrix) = Cardinality(DOMAIN in_state)

\* C7 as stated: a step of life_generic leaves cell i alive exactly if it
\* was alive and its count of live neighbours is in the survive set, or its
\* count is in the birth set, whatever the two sets are.
C7_GenRule ==
    [][(GenStepping /\ SquareMatrix) =>
        /\ step' = step + 1
        /\ \A i \in DOMAIN in_state :
              in_state'[i] =
                  \/ in_state[i]
                        /\ LiveCount(matrix, in_state, i) \in environment
                  \/ LiveCount(matrix, in_state, i) \in fertility]_vars

\* C8 as stated: on the flattened grid, with the adjacency of the grid and
\* the sets {2, 3} and {3}, life_generic returns what life returned with
\* periodic false.
C8_SameAsLife ==
    (fn = "life_generic" /\ pc = "returned" /\ call = 2)
        => ret = Flatten(first)

\* C10 as stated: a call with a negative step count returns nothing.
C10_NegativeRejected ==
    (fn \in {"life", "lifetri", "life_generic"} /\ nsteps < 0)
        => pc # "returned"

\* C11 as stated: a call of life_generic whose matrix is not n x n, n being
\* the length of the state vector, returns nothing, whatever the step count
\* and however many rows the matrix has.
C11_ShapeRejected ==
    (fn = "life_generic" /\ call = 1 /\ ~SquareMatrix) => pc # "returned"

-----------------------------------------------------------------------------
(* claims about a step count of zero *)

Returned0 == call = 1 /\ pc = "returned" /\ nsteps = 0

\* C12: with a step count of 0, life, lifetri and life_generic return a
\* configuration with the shape of the initial one and equal to it cell for
\* cell; lifetri returns numbers, which are compared as == of Python does,
\* 1 being equal to True and 0 to False.
C12_ZeroSteps ==
    Returned0 =>
        /\ DOMAIN ret = DOMAIN initial_state
        /\ fn = "life" =>
              \A x \in DOMAIN ret :
                  /\ DOMAIN ret[x] = DOMAIN initial_state[x]
                  /\ \A y \in DOMAIN ret[x] : ret[x][y] = initial_state[x][y]
        /\ fn = "lifetri" =>
              \A x \in DOMAIN ret :
                  /\ DOMAIN ret[x] = DOMAIN initial_state[x]
                  /\ \A y \in DOMAIN ret[x] :
                        ret[x][y] = AsInt(initial_state[x][y])
        /\ fn = "life_generic" =>
              \A x \in DOMAIN ret : ret[x] = initial_state[x]

\* lifetri has returned a grid with a live and a dead cell after no step,
\* with periodic true
C12_Witness ==
    /\ Returned0 /\ fn = "lifetri" /\ periodic
    /\ \E p \in Cells(ret) : ret[p[1]][p[2]] = 1
    /\ \E p \in Cells(ret) : ret[p[1]][p[2]] = 0

-----------------------------------------------------------------------------
(* claims about the boundary and the orientation of lifetri *)

\* the neighbour counts of a pass are about to be computed
TriStepping == fn = "lifetri" /\ pc = "loop" /\ step < nsteps

\* the buffer whose windows the coming pass reads
TriRead == Boundary(in_state, aux, periodic)

\* the cells of the caller's grid
GridCells == Range(irows) \X Range(icols)

\* the count the code computes for the cell (row, col) of the caller's grid
\* in the buffer w
CodeCount(w, row, col) == neighbors(w, row + 1, col + 2)

\* the live cells of the window W of (row, col), read on the grid g with the
\* indices taken modulo its numbers of rows and columns
TorusCount(g, row, col, W) ==
    Cardinality({d \in W :
        g[(row + d[1]) % NRows(g)][(col + d[2]) % NCols(g)] = 1})

\* C17 as stated: with periodic true, for every shape of grid, the count of
\* every cell is the count of its window read on the un-padded grid with
\* the row and column indices taken modulo the numbers of rows and columns.
C17_Toroidal ==
    (TriStepping /\ periodic) =>
        \E w \in {TriRead} : \E g \in {TriInterior(in_state)} :
            \A p \in GridCells :
                CodeCount(w, p[1], p[2]) =
                    TorusCount(g, p[1], p[2], Window(p[1] + 1, p[2] + 2))

\* the cells of the padded buffer outside the caller's grid
TriBorder == (Range(irows + 2) \X Range(icols + 4)) \ TriCells

\* the live cells of the window of (x, y) that are cells of the caller's grid
InGridCount(a, x, y) ==
    Cardinality({d \in Window(x, y) :
        /\ <<x + d[1], y + d[2]>> \in TriCells
        /\ a[x + d[1]][y + d[2]] = 1})

\* C18: with periodic false, every border cell of the padded buffer is 0
\* whenever the counts are computed, in the buffer that is read and in the
\* one that is written, so that a count is the number of live cells of the
\* window that lie inside the grid.
C18_DeadBorder ==
    (fn = "lifetri" /\ ~periodic /\ pc = "loop") =>
        \E w \in {TriRead} :
            /\ \A p \in TriBorder :
                  /\ w[p[1]][p[2]] = 0
                  /\ in_state[p[1]][p[2]] = 0
                  /\ aux[p[1]][p[2]] = 0
            /\ \A p \in TriCells :
                  neighbors(w, p[1], p[2]) = InGridCount(in_state, p[1], p[2])

\* a second pass is about to be made, and a live cell has a cell of its
\* window outside the grid
C18_Witness ==
    /\ TriStepping /\ ~periodic /\ step = 1
    /\ \E p \in TriCells :
          /\ in_state[p[1]][p[2]] = 1
          /\ \E d \in Window(p[1], p[2]) :
                <<p[1] + d[1], p[2] + d[2]>> \in TriBorder

\* the live cells of the window W of the cell (row, col) of the caller's
\* grid, read in the buffer w
WindowCountAt(w, row, col, W) ==
    Cardinality({d \in W : w[row + 1 + d[1]][col + 2 + d[2]] = 1})

\* C19 as stated: the cell (row, col) of the caller's grid is counted with
\* the window of 3 cells above and 5 below if (row + col + 1) mod 2 = 0, and
\* with the window of 5 cells above and 3 below otherwise.
C19_UpIfSumOdd ==
    TriStepping =>
        \E w \in {TriRead} : \A p \in GridCells :
            CodeCount(w, p[1], p[2]) =
                WindowCountAt(w, p[1], p[2],
                    IF (p[1] + p[2] + 1) % 2 = 0
                    THEN Window3Above ELSE Window5Above)

\* C19, amended: the cell (row, col) of the caller's grid is counted with
\* the window of 3 cells above and 5 below if (row + col) mod 2 = 0, and
\* with the window of 5 cells above and 3 below otherwise.
C19_UpIfSumEven ==
    TriStepping =>
        \E w \in {TriRead} : \A p \in GridCells :
            CodeCount(w, p[1], p[2]) =
                WindowCountAt(w, p[1], p[2],
                    IF (p[1] + p[2]) % 2 = 0
                    THEN Window3Above ELSE Window5Above)

\* a pass is about to be made in which the two windows of some cell hold
\* different numbers of live cells
C19_Witness ==
    /\ TriStepping
    /\ \E w \in {TriRead} : \E p \in GridCells :
          WindowCountAt(w, p[1], p[2], Window3Above)
              # WindowCountAt(w, p[1], p[2], Window5Above)

-----------------------------------------------------------------------------
(* life started from a glider or a blinker *)

\* the r x c grid of booleans whose live cells are those of the set live
GridOf(r, c, live) == [x \in Range(r) |-> [y \in Range(c) |-> <<x, y>> \in live]]

\* the five cells of a glider in its 3x3 box, or its mirror image
GliderCells(mirror) ==
    {<<0, 1>>,
     <<1, IF mirror THEN 0 ELSE 2>>,
     <<2, 0>>, <<2, 1>>, <<2, 2>>}

\* a glider on the N x N torus, its box at (ox, oy)
Glider(N, ox, oy, mirror) ==
    GridOf(N, N, {<<(ox + q[1]) % N, (oy + q[2]) % N>> : q \in GliderCells(mirror)})

\* the horizontal and the vertical blinker with centre (cx, cy)
BlinkerH(r, c, cx, cy) == GridOf(r, c, {<<cx, cy - 1>>, <<cx, cy>>, <<cx, cy + 1>>})
BlinkerV(r, c, cx, cy) == GridOf(r, c, {<<cx - 1, cy>>, <<cx, cy>>, <<cx + 1, cy>>})

\* life(g, nsteps, periodic), lines 73 to 81, for a given grid g
LifeCallWith(g, n, per) ==
    /\ pc = "idle"
    /\ initial_state' = g
    /\ in_state' = g
    /\ aux' = g
    /\ irows' = NRows(g)
    /\ icols' = NCols(g)
    /\ nsteps' = n
    /\ periodic' = per
    /\ fn' = "life"
    /\ pc' = "loop"
    /\ call' = 1
    /\ step' = 0
    /\ UNCHANGED <<matrix, dtype, environment, fertility, ret, first, leaked>>

\* life(glider on the N x N grid, 4 * N, True)
GliderCall ==
    \E N \in 5..MaxField : \E ox \in Range(N), oy \in Range(N) :
        \E mirror \in BOOLEAN :
            LifeCallWith(Glider(N, ox, oy, mirror), 4 * N, TRUE)

\* life(horizontal blinker off the edges, nsteps, False)
BlinkerCall ==
    \E r \in 3..MaxField, c \in 5..MaxField :
        \E cx \in 1..(r - 2), cy \in 2..(c - 3) : \E n \in 0..MaxBlinkSteps :
            LifeCallWith(BlinkerH(r, c, cx, cy), n, FALSE)

NextPatterns == GliderCall \/ BlinkerCall \/ LifeStep \/ LifeReturn

SpecPatterns == Init /\ [][NextPatterns]_vars

LifeReturned == fn = "life" /\ pc = "returned"

\* C13: life started from a glider on an N x N grid, N >= 5, with periodic
\* true returns the initial grid after 4 * N steps.
C13_GliderReturns ==
    (LifeReturned /\ periodic /\ nsteps = 4 * irows) => ret = initial_state

\* the run of a glider has returned after its 4 * N steps
C13_Witness ==
    /\ LifeReturned /\ periodic /\ irows >= 5 /\ step = 4 * irows
    /\ Cardinality({p \in Cells(ret) : ret[p[1]][p[2]]}) = 5

\* the centre of the blinker the run started from
BlinkerCentre ==
    CHOOSE p \in Cells(initial_state) :
        initial_state = BlinkerH(irows, icols, p[1], p[2])

\* C14: with periodic false, a horizontal blinker off the edges becomes the
\* vertical blinker through the same centre after every odd number of steps
\* and is the initial grid again after every even number of steps.
C14_BlinkerPeriod2 ==
    (fn = "life" /\ ~periodic /\ pc \in {"loop", "returned"}) =>
        LET expected ==
                IF step % 2 = 1
                THEN BlinkerV(irows, icols, BlinkerCentre[1], BlinkerCentre[2])
                ELSE initial_state
        IN  /\ in_state = expected
            /\ pc = "returned" => ret = expected

\* runs from a blinker have returned after three steps
C14_Witness ==
    /\ LifeReturned /\ ~periodic /\ step = 3
    /\ ret = BlinkerV(irows, icols, BlinkerCentre[1], BlinkerCentre[2])

=============================================================================
